---- MODULE Spec2Model ----
(***************************************************************************)
(* Model of streamlit_app.py: the US traffic accidents dashboard.          *)
(*                                                                         *)
(* A data frame is a record [columns, rows]: columns is the list of column *)
(* names, rows the list of rows.  A row is a function from the column      *)
(* names, "index" and "count" to values: it stands for count consecutive   *)
(* records that agree in every column and carry the pandas index labels    *)
(* index, index + 1, ..., index + count - 1.  (A table of 10,001 records   *)
(* is then a value TLC can hold; count is 1 throughout Spec.)  Real        *)
(* numbers of the dataset carry one decimal digit: [int |-> i, frac |-> f] *)
(* is i + f/10 with f in 0..9.  Strings that the program orders (state     *)
(* codes, the "YYYY-MM" bucket) are sequences of character codes.          *)
(***************************************************************************)
EXTENDS Integers, Sequences, FiniteSets, TLC

\* ------------------------------------------------------------ bounds
\* Longest raw table the data source hands over in Spec.
MaxRows == 3
\* In SamplerSpec the filtered set has up to SAMPLE_CAP + MaxExcess rows.
MaxExcess == 2

\* ------------------------------------------------- program constants
SAMPLE_CAP == 10000
SAMPLE_SEED == 1
WIND_CUTOFF == 100
VIS_CUTOFF == 20

\* Python's None where a name holds a string, and where it holds a frame, a
\* result or an exception; a name that holds a list or a text is the empty
\* list until the script binds it.
None == "None"
Null == [none |-> TRUE]
Unbound == <<>>
\* The missing value of a float column, of a datetime column and of a text
\* column (an empty cell).
NaN == [nan |-> TRUE]
NaT == [nat |-> TRUE]
NoText == <<>>

\* ------------------------------------------------------------ helpers
Range(s) == {s[i] : i \in 1..Len(s)}

RECURSIVE SeqSum(_)
SeqSum(s) == IF s = <<>> THEN 0 ELSE Head(s) + SeqSum(Tail(s))

\* Python's order on str: lexicographic by character code.
RECURSIVE StrLess(_, _)
StrLess(a, b) ==
    IF b = <<>> THEN FALSE
    ELSE IF a = <<>> THEN TRUE
    ELSE IF Head(a) # Head(b) THEN Head(a) < Head(b)
    ELSE StrLess(Tail(a), Tail(b))

\* Order of two decimal numbers.
DecLess(a, b) == a.int < b.int \/ (a.int = b.int /\ a.frac < b.frac)

Dec(i, f) == [int |-> i, frac |-> f]

\* Python's < on the values of one column: kind names the column's type.
Less(kind, a, b) ==
    CASE kind = "str" -> StrLess(a, b)
      [] kind = "int" -> a < b
      [] kind = "float" -> DecLess(a, b)

\* sorted(x.unique()): the distinct values in ascending order.
RECURSIVE sorted(_, _)
sorted(S, kind) ==
    IF S = {} THEN <<>>
    ELSE LET m == CHOOSE x \in S : \A y \in S : ~Less(kind, y, x)
         IN <<m>> \o sorted(S \ {m}, kind)

\* Boolean indexing: the rows whose mask entry is True, in order.
RECURSIVE BoolIndex(_, _)
BoolIndex(rows, mask) ==
    IF rows = <<>> THEN <<>>
    ELSE (IF Head(mask) THEN <<Head(rows)>> ELSE <<>>)
         \o BoolIndex(Tail(rows), Tail(mask))

\* ------------------------------------------------- str(Period('M'))
Chr0 == 48
ChrDash == 45

RECURSIVE itoa(_)
itoa(n) == IF n < 10 THEN <<Chr0 + n>> ELSE itoa(n \div 10) \o <<Chr0 + (n % 10)>>

Month2_NoPad(m) == itoa(m)

\* strftime %m: the month as two digits, zero padded.
Month2(m) == IF m < 10 THEN <<Chr0>> \o itoa(m) ELSE itoa(m)

\* to_period('M').astype(str): "YYYY-MM".
PeriodStr(y, m) == itoa(y) \o <<ChrDash>> \o Month2(m)

\* ------------------------------------------------------- the data source
\* Character codes of the texts the model uses.
CA == <<67, 65>>
TX == <<84, 88>>
Garbage == <<110, 47, 97>>
Fair == <<70, 97, 105, 114>>
A1 == <<65, 45, 49>>

\* Start_Time texts, "2020-02" and so on (day and time left out: the program
\* reads only the year and the month of Start_Time).
T2019_12 == <<50, 48, 49, 57, 45, 49, 50>>
T2020_02 == <<50, 48, 50, 48, 45, 48, 50>>
T2020_10 == <<50, 48, 50, 48, 45, 49, 48>>
T2021_02 == <<50, 48, 50, 49, 45, 48, 50>>

columns_to_keep ==
    <<"State", "Severity", "Start_Time", "Weather_Condition", "Visibility(mi)",
      "Temperature(F)", "Wind_Speed(mph)", "Start_Lat", "Start_Lng">>

\* The columns of the dataset file: the nine the program keeps and one more.
AllRawColumns == <<"ID">> \o columns_to_keep

RawRow(state, sev, time, vis, temp, wind) ==
    [c \in Range(AllRawColumns) |->
        CASE c = "ID" -> A1
          [] c = "State" -> state
          [] c = "Severity" -> sev
          [] c = "Start_Time" -> time
          [] c = "Weather_Condition" -> Fair
          [] c = "Visibility(mi)" -> vis
          [] c = "Temperature(F)" -> temp
          [] c = "Wind_Speed(mph)" -> wind
          [] c = "Start_Lat" -> Dec(34, 0)
          [] c = "Start_Lng" -> Dec(-118, 0)]

\* The rows raw tables are made of.
RowUniverse ==
    { RawRow(CA, 2, T2020_02, Dec(10, 0), Dec(60, 5), Dec(99, 9)),
      RawRow(CA, 3, T2020_10, Dec(20, 0), Dec(61, 5), Dec(100, 0)),
      RawRow(CA, 2, T2021_02, Dec(20, 1), Dec(-1, 5), Dec(150, 0)),
      RawRow(TX, 1, T2020_02, Dec(0, 5), Dec(60, 5), Dec(10, 0)),
      RawRow(CA, 1, T2019_12, Dec(25, 0), Dec(32, 4), Dec(100, 0)),
      RawRow(CA, 2, T2020_02, Dec(10, 0), Dec(60, 5), NaN),
      RawRow(TX, 3, Garbage, Dec(10, 0), Dec(60, 5), Dec(10, 0)) }

\* The column lists a raw table may come with.
Without(cols, c) == SelectSeq(cols, LAMBDA x : x # c)

ColumnVariants ==
    { AllRawColumns, <<"ID">>,
      Without(AllRawColumns, "Start_Time"), Without(AllRawColumns, "State"),
      Without(AllRawColumns, "Severity"), Without(AllRawColumns, "Weather_Condition"),
      Without(AllRawColumns, "Wind_Speed(mph)"), Without(AllRawColumns, "Start_Lat") }

\* A table of the given records under the given columns, indexed 0, 1, ...
\* (RangeIndex).
Frame(cols, rows) ==
    [columns |-> cols,
     rows |-> [i \in 1..Len(rows) |->
                 [c \in Range(cols) \cup {"index", "count"} |->
                     CASE c = "index" -> i - 1
                       [] c = "count" -> 1
                       [] OTHER -> rows[i][c]]]]

RawTables(cols, maxLen) ==
    UNION { { Frame(cols, rows) : rows \in [1..n -> RowUniverse] } : n \in 0..maxLen }

\* ------------------------------------------------------- pandas pieces
HasColumn(frame, c) == c \in Range(frame.columns)

\* df[cols]: the frame restricted to the listed columns.
Project(frame, cols) ==
    [columns |-> cols,
     rows |-> [i \in 1..Len(frame.rows) |->
                 [c \in Range(cols) \cup {"index", "count"} |-> frame.rows[i][c]]]]

\* The dtype of a column of the dataset file as read_csv reads it.
RawDtype(c) ==
    CASE c \in {"Visibility(mi)", "Temperature(F)", "Wind_Speed(mph)", "Start_Lat",
                "Start_Lng"} -> "float"
      [] c = "Severity" -> "int"
      [] OTHER -> "object"

\* Series.isna() on one value of a column of the given dtype.
isna(v, dtype) ==
    CASE dtype = "float" -> v = NaN
      [] dtype = "datetime" -> v = NaT
      [] dtype = "object" -> v = NoText
      [] OTHER -> FALSE

\* df.dropna(subset=cols): the rows with no missing value in cols, read with
\* the dtype the column has (Start_Time is text before line 63, datetime after).
dropna(frame, cols, datetimes) ==
    [frame EXCEPT !.rows =
        SelectSeq(frame.rows,
            LAMBDA r : \A c \in Range(cols) :
                ~isna(r[c], IF c \in datetimes THEN "datetime" ELSE RawDtype(c)))]

IsDigit(ch) == ch \in Chr0..(Chr0 + 9)

RECURSIVE atoi(_)
atoi(s) == IF s = <<>> THEN 0 ELSE 10 * atoi(SubSeq(s, 1, Len(s) - 1)) + (s[Len(s)] - Chr0)

\* pd.to_datetime(text, errors='coerce'): the timestamp, or NaT when the text
\* is no timestamp.
to_datetime(text) ==
    IF /\ Len(text) = 7
       /\ text[5] = ChrDash
       /\ \A i \in {1, 2, 3, 4, 6, 7} : IsDigit(text[i])
       /\ atoi(SubSeq(text, 6, 7)) \in 1..12
    THEN [year |-> atoi(SubSeq(text, 1, 4)), month |-> atoi(SubSeq(text, 6, 7))]
    ELSE NaT

\* len(df): the number of records.
NRows(frame) == SeqSum([i \in 1..Len(frame.rows) |-> frame.rows[i]["count"]])

\* The first index label of each row of a frame, and the row that carries it.
Labels(frame) == {frame.rows[i]["index"] : i \in 1..Len(frame.rows)}

RowAt(frame, label) ==
    frame.rows[CHOOSE i \in 1..Len(frame.rows) : frame.rows[i]["index"] = label]

\* df[c] = series: column c set from a series (first index label of a row to
\* the value of its records), aligned on the index; a row whose label the
\* series lacks gets NaN.  A new column is appended to the columns.
SetColumn(frame, c, series) ==
    [columns |-> IF HasColumn(frame, c) THEN frame.columns ELSE Append(frame.columns, c),
     rows |-> [i \in 1..Len(frame.rows) |->
                 [k \in (DOMAIN frame.rows[i]) \cup {c} |->
                     IF k # c THEN frame.rows[i][k]
                     ELSE IF frame.rows[i]["index"] \in DOMAIN series
                          THEN series[frame.rows[i]["index"]] ELSE NaN]]]

\* df[c]: the values of column c, in row order.
Column(frame, c) == [i \in 1..Len(frame.rows) |-> frame.rows[i][c]]

\* ------------------------------------------------------------ load_data
KeyError(where) == [type |-> "KeyError", where |-> where]
ValueError(where) == [type |-> "ValueError", where |-> where]

\* The body of load_data: what it returns, what it shows and what it raises.
load_data(ok, rawframe) ==
    IF ~ok
    THEN [raised |-> Null, df |-> Null, states |-> <<>>, years |-> <<>>,
          shown |-> {"Error loading data from Kaggle"}]
    ELSE
    LET existing_columns == SelectSeq(columns_to_keep, LAMBDA c : HasColumn(rawframe, c))
        d1 == dropna(Project(rawframe, existing_columns), existing_columns, {})
    IN  IF ~HasColumn(d1, "Start_Time")
        THEN [raised |-> KeyError("load_data"), df |-> Null, states |-> <<>>,
              years |-> <<>>, shown |-> {"Data loaded successfully!"}]
        ELSE
        LET d2 == SetColumn(d1, "Start_Time",
                      [l \in Labels(d1) |-> to_datetime(RowAt(d1, l)["Start_Time"])])
            d3 == dropna(d2, <<"Start_Time">>, {"Start_Time"})
            d4 == SetColumn(d3, "Year",
                      [l \in Labels(d3) |-> RowAt(d3, l)["Start_Time"].year])
            d5 == SetColumn(d4, "Month",
                      [l \in Labels(d4) |-> RowAt(d4, l)["Start_Time"].month])
            d6 == SetColumn(d5, "YearMonth",
                      [l \in Labels(d5) |->
                          PeriodStr(RowAt(d5, l)["Start_Time"].year,
                                    RowAt(d5, l)["Start_Time"].month)])
        IN  IF ~HasColumn(d6, "State")
            THEN [raised |-> KeyError("load_data"), df |-> Null, states |-> <<>>,
                  years |-> <<>>, shown |-> {"Data loaded successfully!"}]
            ELSE [raised |-> Null, df |-> d6,
                  states |-> sorted(Range(Column(d6, "State")), "str"),
                  years |-> sorted(Range(Column(d6, "Year")), "int"),
                  shown |-> {"Data loaded successfully!"}]

\* ------------------------------------------------------- the aggregations
\* Series.unique(): the distinct values in order of first appearance.
RECURSIVE unique(_)
unique(col) ==
    IF col = <<>> THEN <<>>
    ELSE LET init == unique(SubSeq(col, 1, Len(col) - 1))
             last == col[Len(col)]
         IN IF last \in Range(init) THEN init ELSE Append(init, last)

\* The number of records whose column c holds v.
CountOf(frame, c, v) ==
    SeqSum([i \in 1..Len(frame.rows) |->
               IF frame.rows[i][c] = v THEN frame.rows[i]["count"] ELSE 0])

\* Stable sort of <<key, value>> pairs, ascending by key.
RECURSIVE SortByKey(_, _)
SortByKey(pairs, kind) ==
    IF pairs = <<>> THEN <<>>
    ELSE LET m == CHOOSE i \in 1..Len(pairs) :
                     /\ \A j \in 1..Len(pairs) : ~Less(kind, pairs[j][1], pairs[i][1])
                     /\ \A j \in 1..(i - 1) : Less(kind, pairs[i][1], pairs[j][1])
         IN <<pairs[m]>> \o
            SortByKey(SubSeq(pairs, 1, m - 1) \o SubSeq(pairs, m + 1, Len(pairs)), kind)

\* Stable sort of <<key, count>> pairs, descending by count.
RECURSIVE SortByCountDesc(_)
SortByCountDesc(pairs) ==
    IF pairs = <<>> THEN <<>>
    ELSE LET m == CHOOSE i \in 1..Len(pairs) :
                     /\ \A j \in 1..Len(pairs) : pairs[j][2] <= pairs[i][2]
                     /\ \A j \in 1..(i - 1) : pairs[j][2] < pairs[i][2]
         IN <<pairs[m]>> \o
            SortByCountDesc(SubSeq(pairs, 1, m - 1) \o SubSeq(pairs, m + 1, Len(pairs)))

\* Series.value_counts(): one <<value, count>> per distinct value, most
\* frequent first.
value_counts(frame, c) ==
    LET u == unique(Column(frame, c))
    IN SortByCountDesc([i \in 1..Len(u) |-> <<u[i], CountOf(frame, c, u[i])>>])

\* Series.sort_index().
sort_index(pairs, kind) == SortByKey(pairs, kind)

\* DataFrame.sort_values(by=key column).
sort_values(pairs, kind) == SortByKey(pairs, kind)

\* groupby(c).size().reset_index(): one <<key, size>> per group, the group
\* keys sorted (groupby's sort=True).
groupby_size(frame, c, kind) ==
    LET keys == sorted(Range(Column(frame, c)), kind)
    IN [i \in 1..Len(keys) |-> <<keys[i], CountOf(frame, c, keys[i])>>]

\* Series.round(): to the nearest integer, a tie to the even one (numpy).
round(d) ==
    IF d.frac < 5 THEN Dec(d.int, 0)
    ELSE IF d.frac > 5 THEN Dec(d.int + 1, 0)
    ELSE IF d.int % 2 = 0 THEN Dec(d.int, 0) ELSE Dec(d.int + 1, 0)

\* Line 160.
SeverityCounts_Unsorted(frame) == value_counts(frame, "Severity")

SeverityCounts(frame) == sort_index(value_counts(frame, "Severity"), "int")

\* Lines 175-176.
MonthlyCounts(frame) ==
    sort_values(groupby_size(frame, "YearMonth", "str"), "str")

\* ------------------------------------------------------- the filter
FilterMask_ExclusiveUpper(frame, state, sevs, years) ==
    [i \in 1..Len(frame.rows) |->
        /\ frame.rows[i]["State"] = state
        /\ frame.rows[i]["Severity"] \in Range(sevs)
        /\ frame.rows[i]["Year"] >= years[1]
        /\ frame.rows[i]["Year"] < years[2]]

\* The boolean mask of lines 120-123.
FilterMask(frame, state, sevs, years) ==
    [i \in 1..Len(frame.rows) |->
        /\ frame.rows[i]["State"] = state
        /\ frame.rows[i]["Severity"] \in Range(sevs)
        /\ frame.rows[i]["Year"] >= years[1]
        /\ frame.rows[i]["Year"] <= years[2]]

\* df[mask]
Filter(frame, mask) == [frame EXCEPT !.rows = BoolIndex(frame.rows, mask)]

\* DataFrame.empty
empty(frame) == NRows(frame) = 0

\* ------------------------------------------------------- the sampler
\* The generator DataFrame.sample draws from: with random_state=1 a fresh
\* RandomState(1), whatever numpy's global generator holds.
sample_random_state(global) == [state |-> SAMPLE_SEED, global |-> FALSE]

\* The positions RandomState.choice(len, size=n, replace=False) yields: n
\* distinct positions of 1..len fixed by the generator's state and len, as
\* the list of the intervals <<from, to>> they run through.  The Mersenne
\* twister is not modelled: the permutation is a rotation of 1..len whose
\* offset the state fixes.
choice(state, len, n) ==
    LET first == ((state * 7919) % len) + 1
    IN IF first + n - 1 <= len THEN <<<<first, first + n - 1>>>>
       ELSE <<<<first, len>>, <<1, n - (len - first + 1)>>>>

\* DataFrame.take of the records at positions from..to: the rows they lie in,
\* cut to the positions.
RECURSIVE take(_, _, _, _)
take(rows, start, from, to) ==
    IF rows = <<>> THEN <<>>
    ELSE LET r == Head(rows)
             last == start + r["count"] - 1
             lo == IF from > start THEN from ELSE start
             hi == IF to < last THEN to ELSE last
         IN (IF lo <= hi
             THEN <<[r EXCEPT !["index"] = r["index"] + (lo - start),
                              !["count"] = hi - lo + 1]>>
             ELSE <<>>)
            \o take(Tail(rows), last + 1, from, to)

SampleSize_OffByOne == SAMPLE_CAP + 1

\* n=10000 of line 139.
SampleSize == SAMPLE_CAP

\* df_filtered.sample(n, random_state): the rows at the drawn positions.
sample(frame, n, rs) ==
    LET locs == choice(rs.state, NRows(frame), n)
        RECURSIVE rows(_)
        rows(k) == IF k > Len(locs) THEN <<>>
                   ELSE take(frame.rows, 1, locs[k][1], locs[k][2]) \o rows(k + 1)
    IN [frame EXCEPT !.rows = rows(1)]

\* ------------------------------------------------------- the weather view
metric_map ==
    [l \in {"Visibility", "Temperature", "Wind Speed"} |->
        CASE l = "Visibility" -> "Visibility(mi)"
          [] l = "Temperature" -> "Temperature(F)"
          [] l = "Wind Speed" -> "Wind_Speed(mph)"]

binned_col(metric_col) ==
    CASE metric_col = "Visibility(mi)" -> "Visibility(mi)_Rounded"
      [] metric_col = "Temperature(F)" -> "Temperature(F)_Rounded"
      [] metric_col = "Wind_Speed(mph)" -> "Wind_Speed(mph)_Rounded"

KeepsMetric_InclusiveWind(metric_col, row) ==
    CASE metric_col = "Wind_Speed(mph)" ->
            ~DecLess(Dec(WIND_CUTOFF, 0), row["Wind_Speed(mph)"])
      [] metric_col = "Visibility(mi)" ->
            ~DecLess(Dec(VIS_CUTOFF, 0), row["Visibility(mi)"])
      [] OTHER -> TRUE

\* The outlier masks of lines 210-219: wind speed < 100, visibility <= 20,
\* temperature unfiltered.
KeepsMetric(metric_col, row) ==
    CASE metric_col = "Wind_Speed(mph)" ->
            DecLess(row["Wind_Speed(mph)"], Dec(WIND_CUTOFF, 0))
      [] metric_col = "Visibility(mi)" ->
            ~DecLess(Dec(VIS_CUTOFF, 0), row["Visibility(mi)"])
      [] OTHER -> TRUE

MetricClean(frame, metric_col) ==
    Filter(frame, [i \in 1..Len(frame.rows) |-> KeepsMetric(metric_col, frame.rows[i])])

\* Per-bucket count and sums of the three metrics (a monthly correlation
\* view); the program has no such computation.
WeatherView_Monthly(clean, metric_col) ==
    [columns |-> <<"YearMonth", "Accident Count", "Visibility(mi)", "Temperature(F)",
                   "Wind_Speed(mph)">>,
     rows |-> groupby_size(clean, "YearMonth", "str")]

\* Lines 226-230: the rounded column is added to dff_clean and the frequency
\* of each rounded value taken.
WeatherView(clean, metric_col) ==
    [columns |-> <<binned_col(metric_col), "Accident Frequency">>,
     rows |-> groupby_size(clean, binned_col(metric_col), "float")]

\* ------------------------------------------------------------ the state
VARIABLES
    raw,                  \* the table the data source holds
    source_ok,            \* whether kagglehub.load_dataset succeeds
    cache,                \* st.cache_data's entry for load_data: None or its result
    pc,                   \* where the script run stands
    heap,                 \* the data frame objects of this run, by allocation site
    df,                   \* the names of the script: references into heap, or values
    available_states,
    available_years,
    selected_state,
    selected_severities,
    selected_years,
    df_filtered,
    df_sample,
    severity_counts,
    monthly_counts,
    selected_metric_label,
    dff_clean,
    freq_data,
    shown,                \* st.error / st.warning / st.success texts shown in this run
    charts,               \* the data handed to st.plotly_chart, by chart
    exception,            \* the uncaught exception that ended this run, or None
    np_random,            \* numpy's global generator
    prev_sample           \* df_sample of the run before (SamplerSpec only)

vars ==
    <<raw, source_ok, cache, pc, heap, df, available_states, available_years,
      selected_state, selected_severities, selected_years, df_filtered, df_sample,
      severity_counts, monthly_counts, selected_metric_label, dff_clean, freq_data,
      shown, charts, exception, np_random, prev_sample>>

Sites == {"base", "filtered", "sample", "clean"}
ChartNames == {"map", "severity", "monthly", "weather"}

NoHeap == [s \in Sites |-> Null]
NoCharts == [c \in ChartNames |-> Unbound]

NoDataWarning == "No data available to configure filters."
EmptyWarning == "No data found for the selected filters."
MetricWarning == "No data for this metric after cleaning outliers."

\* The names a script run starts with.
FreshRun ==
    /\ pc = "load"
    /\ heap = NoHeap
    /\ df = None
    /\ available_states = <<>>
    /\ available_years = <<>>
    /\ selected_state = Unbound
    /\ selected_severities = Unbound
    /\ selected_years = Unbound
    /\ df_filtered = None
    /\ df_sample = None
    /\ severity_counts = Unbound
    /\ monthly_counts = Unbound
    /\ selected_metric_label = None
    /\ dff_clean = None
    /\ freq_data = Null
    /\ shown = {}
    /\ charts = NoCharts
    /\ exception = Null

\* Raw tables of every length up to MaxRows with all columns; the tables with
\* a column missing have at most one row.
Init ==
    /\ \/ /\ source_ok \in BOOLEAN
          /\ raw \in RawTables(AllRawColumns, MaxRows)
       \/ /\ source_ok = TRUE
          /\ \E cols \in ColumnVariants \ {AllRawColumns} : raw \in RawTables(cols, 1)
    /\ cache = Null
    /\ np_random = 0
    /\ prev_sample = Null
    /\ FreshRun

\* ------------------------------------------------------------ the script
\* Line 76: load_data(), through st.cache_data, which runs the function on a
\* miss, stores what it returned and hands out a copy of the stored value.
LoadData ==
    /\ pc = "load"
    /\ LET res == IF cache # Null THEN cache ELSE load_data(source_ok, raw)
       IN IF res.raised # Null
          THEN /\ pc' = "exception"
               /\ exception' = res.raised
               /\ shown' = shown \cup res.shown
               /\ UNCHANGED <<cache, heap, df, available_states, available_years>>
          ELSE /\ pc' = "loaded"
               /\ cache' = res
               /\ shown' = shown \cup res.shown
               /\ df' = IF res.df = Null THEN None ELSE "base"
               /\ heap' = [heap EXCEPT !["base"] = res.df]
               /\ available_states' = res.states
               /\ available_years' = res.years
               /\ UNCHANGED exception
    /\ UNCHANGED <<raw, source_ok, selected_state, selected_severities, selected_years,
                   df_filtered, df_sample, severity_counts, monthly_counts,
                   selected_metric_label, dff_clean, freq_data, charts, np_random,
                   prev_sample>>

NoFilterOptions_StatesOnly(states, years) == states = <<>> /\ years # <<>>

\* Line 90: not available_states or not available_years.
NoFilterOptions(states, years) == states = <<>> \/ years = <<>>

\* Lines 79-92: the two st.stop() checks.
StopIfNoData ==
    /\ pc = "loaded"
    /\ IF df = None
       THEN pc' = "stopped" /\ UNCHANGED shown
       ELSE IF NoFilterOptions(available_states, available_years)
       THEN pc' = "stopped" /\ shown' = shown \cup {NoDataWarning}
       ELSE pc' = "sidebar" /\ UNCHANGED shown
    /\ UNCHANGED <<raw, source_ok, cache, heap, df, available_states, available_years,
                   selected_state, selected_severities, selected_years, df_filtered,
                   df_sample, severity_counts, monthly_counts, selected_metric_label,
                   dff_clean, freq_data, charts, exception, np_random, prev_sample>>

\* Lines 95-115: the three sidebar widgets; the user's choices are any the
\* widgets offer.
Sidebar ==
    /\ pc = "sidebar"
    /\ \E st \in Range(available_states) :
        /\ selected_state' = st
        /\ IF ~HasColumn(heap[df], "Severity")
           THEN /\ pc' = "exception"
                /\ exception' = KeyError("sidebar")
                /\ UNCHANGED <<selected_severities, selected_years>>
           ELSE LET severity_options == sorted(Range(Column(heap[df], "Severity")), "int")
                IN /\ \E sevs \in SUBSET Range(severity_options) :
                          selected_severities' =
                              SelectSeq(severity_options, LAMBDA x : x \in sevs)
                   /\ \E lo, hi \in 1..Len(available_years) :
                          /\ lo <= hi
                          /\ selected_years' = <<available_years[lo], available_years[hi]>>
                   /\ pc' = "filter"
                   /\ UNCHANGED exception
    /\ UNCHANGED <<raw, source_ok, cache, heap, df, available_states, available_years,
                   df_filtered, df_sample, severity_counts, monthly_counts,
                   selected_metric_label, dff_clean, freq_data, shown, charts,
                   np_random, prev_sample>>

IsEmptyResult_AtMostOne(frame) == NRows(frame) <= 1

\* Line 127: df_filtered.empty.
IsEmptyResult(frame) == empty(frame)

\* Lines 119-129: the filter and the empty-result warning.
FilterData ==
    /\ pc = "filter"
    /\ LET mask == FilterMask(heap[df], selected_state, selected_severities,
                              selected_years)
           filtered == Filter(heap[df], mask)
       IN /\ heap' = [heap EXCEPT !["filtered"] = filtered]
          /\ df_filtered' = "filtered"
          /\ IF IsEmptyResult(filtered)
             THEN pc' = "done" /\ shown' = shown \cup {EmptyWarning}
             ELSE pc' = "map" /\ UNCHANGED shown
    /\ UNCHANGED <<raw, source_ok, cache, df, available_states, available_years,
                   selected_state, selected_severities, selected_years, df_sample,
                   severity_counts, monthly_counts, selected_metric_label, dff_clean,
                   freq_data, charts, exception, np_random, prev_sample>>

\* Lines 134-155: the map, of a sample when the filtered set is large.
\* px.scatter_mapbox raises ValueError for a column the frame lacks.
MapSection ==
    /\ pc = "map"
    /\ LET frame == heap[df_filtered]
           rs == sample_random_state(np_random)
           large == NRows(frame) > SAMPLE_CAP
           sampled == IF large THEN sample(frame, SampleSize, rs) ELSE frame
       IN /\ df_sample' = IF large THEN "sample" ELSE df_filtered
          /\ heap' = IF large THEN [heap EXCEPT !["sample"] = sampled] ELSE heap
          /\ np_random' = IF large /\ rs.global THEN np_random + 1 ELSE np_random
          /\ IF \A c \in {"Start_Lat", "Start_Lng", "Severity"} : HasColumn(sampled, c)
             THEN /\ charts' = [charts EXCEPT !["map"] = sampled.rows]
                  /\ pc' = "severity"
                  /\ UNCHANGED exception
             ELSE /\ pc' = "exception"
                  /\ exception' = ValueError("map")
                  /\ UNCHANGED charts
    /\ UNCHANGED <<raw, source_ok, cache, df, available_states, available_years,
                   selected_state, selected_severities, selected_years, df_filtered,
                   severity_counts, monthly_counts, selected_metric_label, dff_clean,
                   freq_data, shown, prev_sample>>

\* Lines 158-167.
SeveritySection ==
    /\ pc = "severity"
    /\ severity_counts' = SeverityCounts(heap[df_filtered])
    /\ charts' = [charts EXCEPT !["severity"] = severity_counts']
    /\ pc' = "monthly"
    /\ UNCHANGED <<raw, source_ok, cache, heap, df, available_states, available_years,
                   selected_state, selected_severities, selected_years, df_filtered,
                   df_sample, monthly_counts, selected_metric_label, dff_clean,
                   freq_data, shown, exception, np_random, prev_sample>>

\* Lines 173-185.
MonthlySection ==
    /\ pc = "monthly"
    /\ monthly_counts' = MonthlyCounts(heap[df_filtered])
    /\ charts' = [charts EXCEPT !["monthly"] = monthly_counts']
    /\ pc' = "weather"
    /\ UNCHANGED <<raw, source_ok, cache, heap, df, available_states, available_years,
                   selected_state, selected_severities, selected_years, df_filtered,
                   df_sample, severity_counts, selected_metric_label, dff_clean,
                   freq_data, shown, exception, np_random, prev_sample>>

\* The cleaned rows written over the loaded table instead of into a copy.
CleanCopy_InPlace == df

\* Lines 212, 216, 219: .copy() makes the cleaned frame an object of its own,
\* which is the frame line 227 adds the rounded column to.
CleanCopy == "clean"

\* Lines 189-249: the weather view of the metric the user picks.
WeatherSection ==
    /\ pc = "weather"
    /\ \E label \in DOMAIN metric_map :
        LET col == metric_map[label]
            filtered == heap[df_filtered]
        IN /\ selected_metric_label' = label
           /\ IF ~HasColumn(filtered, col)
              THEN /\ pc' = "exception"
                   /\ exception' = KeyError("weather")
                   /\ UNCHANGED <<heap, dff_clean, freq_data, shown, charts>>
              ELSE LET clean == MetricClean(filtered, col)
                       heap1 == [heap EXCEPT ![CleanCopy] = clean]
                   IN /\ dff_clean' = CleanCopy
                      /\ pc' = "done"
                      /\ UNCHANGED exception
                      /\ IF empty(clean)
                         THEN /\ heap' = heap1
                              /\ shown' = shown \cup {MetricWarning}
                              /\ UNCHANGED <<freq_data, charts>>
                         ELSE LET rounded == [l \in Labels(clean) |->
                                                 round(RowAt(clean, l)[col])]
                                  heap2 == [heap1 EXCEPT ![CleanCopy] =
                                              SetColumn(heap1[CleanCopy], binned_col(col),
                                                        rounded)]
                              IN /\ heap' = heap2
                                 /\ freq_data' = WeatherView(heap2[CleanCopy], col)
                                 /\ charts' = [charts EXCEPT !["weather"] = freq_data'.rows]
                                 /\ UNCHANGED shown
    /\ UNCHANGED <<raw, source_ok, cache, df, available_states, available_years,
                   selected_state, selected_severities, selected_years, df_filtered,
                   df_sample, severity_counts, monthly_counts, np_random, prev_sample>>

\* Streamlit runs the script again, from the top, on every interaction; only
\* st.cache_data's entry outlives a run.
Rerun ==
    /\ pc \in {"done", "stopped", "exception"}
    /\ pc' = "load"
    /\ heap' = NoHeap
    /\ df' = None
    /\ available_states' = <<>>
    /\ available_years' = <<>>
    /\ selected_state' = Unbound
    /\ selected_severities' = Unbound
    /\ selected_years' = Unbound
    /\ df_filtered' = None
    /\ df_sample' = None
    /\ severity_counts' = Unbound
    /\ monthly_counts' = Unbound
    /\ selected_metric_label' = None
    /\ dff_clean' = None
    /\ freq_data' = Null
    /\ shown' = {}
    /\ charts' = NoCharts
    /\ exception' = Null
    /\ UNCHANGED <<raw, source_ok, cache, np_random, prev_sample>>

Next ==
    \/ LoadData
    \/ StopIfNoData
    \/ Sidebar
    \/ FilterData
    \/ MapSection
    \/ SeveritySection
    \/ MonthlySection
    \/ WeatherSection
    \/ Rerun

Spec == Init /\ [][Next]_vars

\* ------------------------------------------------------- the sampler alone
\* The cleaned rows of the one-row raw tables that survive cleaning.
CleanedRows ==
    { load_data(TRUE, Frame(AllRawColumns, <<u>>)).df.rows[1] :
        u \in { v \in RowUniverse :
                  Len(load_data(TRUE, Frame(AllRawColumns, <<v>>)).df.rows) = 1 } }

CleanedColumns == load_data(TRUE, Frame(AllRawColumns, <<>>)).df.columns

\* A cleaned table of n records equal but for their index label, and one of
\* a records of one kind followed by b of another.
Replicate(row, n) ==
    [columns |-> CleanedColumns,
     rows |-> <<[row EXCEPT !["index"] = 0, !["count"] = n]>>]

Replicate2(row1, a, row2, b) ==
    [columns |-> CleanedColumns,
     rows |-> <<[row1 EXCEPT !["index"] = 0, !["count"] = a],
                [row2 EXCEPT !["index"] = a, !["count"] = b]>>]

\* Filtered sets of a few records, and of about SAMPLE_CAP records.
SamplerSizes == (1..MaxRows) \cup ((SAMPLE_CAP - 1)..(SAMPLE_CAP + MaxExcess))

SamplerFrames ==
    { Replicate(row, n) : row \in CleanedRows, n \in SamplerSizes }
    \cup { Replicate2(p[1], a, p[2], n - a) :
             p \in { q \in CleanedRows \X CleanedRows :
                        q[1] # q[2] /\ q[1]["State"] = q[2]["State"] },
             a \in {1, SAMPLE_CAP \div 2},
             n \in (SAMPLE_CAP - 1)..(SAMPLE_CAP + MaxExcess) }

\* A run that has reached the map section with every row of the table
\* selected.  The data source is not consulted again once load_data's result
\* is cached.
InitSampler ==
    \E frame \in SamplerFrames :
        LET states == sorted(Range(Column(frame, "State")), "str")
            years == sorted(Range(Column(frame, "Year")), "int")
        IN /\ raw = Null
           /\ source_ok = TRUE
           /\ cache = [raised |-> Null, df |-> frame, states |-> states, years |-> years,
                       shown |-> {"Data loaded successfully!"}]
           /\ pc = "map"
           /\ heap = [NoHeap EXCEPT !["base"] = frame, !["filtered"] = frame]
           /\ df = "base"
           /\ available_states = states
           /\ available_years = years
           /\ selected_state = states[1]
           /\ selected_severities = sorted(Range(Column(frame, "Severity")), "int")
           /\ selected_years = <<years[1], years[Len(years)]>>
           /\ df_filtered = "filtered"
           /\ df_sample = None
           /\ severity_counts = Unbound
           /\ monthly_counts = Unbound
           /\ selected_metric_label = None
           /\ dff_clean = None
           /\ freq_data = Null
           /\ shown = {"Data loaded successfully!"}
           /\ charts = NoCharts
           /\ exception = Null
           /\ np_random \in {0, 1}
           /\ prev_sample = Null

\* The user interacts without changing the selection: the script runs again
\* and reaches the map section with the same filtered set.
RerunSameSelection ==
    /\ pc = "severity"
    /\ prev_sample = Null
    /\ prev_sample' = heap[df_sample]
    /\ pc' = "map"
    /\ df_sample' = None
    /\ heap' = [heap EXCEPT !["sample"] = Null]
    /\ charts' = NoCharts
    /\ UNCHANGED <<raw, source_ok, cache, df, available_states, available_years,
                   selected_state, selected_severities, selected_years, df_filtered,
                   severity_counts, monthly_counts, selected_metric_label, dff_clean,
                   freq_data, shown, exception, np_random>>

NextSampler == MapSection \/ RerunSameSelection

SamplerSpec == InitSampler /\ [][NextSampler]_vars

\* =================================================================== claims
Base == heap["base"]
Filtered == heap["filtered"]
Clean == heap["clean"]

\* Whether a row satisfies the selection.
Selected(r) ==
    /\ r["State"] = selected_state
    /\ \E i \in 1..Len(selected_severities) : selected_severities[i] = r["Severity"]
    /\ selected_years[1] <= r["Year"]
    /\ r["Year"] <= selected_years[2]

PositionIn(rows, r) == CHOOSE i \in 1..Len(rows) : rows[i] = r

\* The number of records of the rows S of a frame.
Records(frame, S) ==
    SeqSum([i \in 1..Len(frame.rows) |-> IF i \in S THEN frame.rows[i]["count"] ELSE 0])

\* C1: the Filter Stage returns exactly the records of the cleaned table whose
\* State is the selected region, whose Severity is among the selected ones and
\* whose Year lies in the inclusive range, in their original relative order;
\* with every severity and the full year range selected it returns as many
\* records as the cleaned table has for the region, and a one-year range
\* keeps exactly the records of that year.
C1_FilterExact ==
    df_filtered # None =>
        LET base == Base.rows
            out == Filtered.rows
        IN /\ \A i \in 1..Len(base) :
                 Selected(base[i]) <=> (\E j \in 1..Len(out) : out[j] = base[i])
           /\ \A j \in 1..Len(out) : \E i \in 1..Len(base) : base[i] = out[j]
           /\ \A j, k \in 1..Len(out) :
                 j < k => PositionIn(base, out[j]) < PositionIn(base, out[k])
           /\ Filtered.columns = Base.columns
           /\ ( /\ Range(selected_severities) = Range(Column(Base, "Severity"))
                /\ selected_years = <<available_years[1],
                                      available_years[Len(available_years)]>> )
              => NRows(Filtered) = Records(Base, {i \in 1..Len(base) :
                                                   base[i]["State"] = selected_state})
           /\ selected_years[1] = selected_years[2]
              => \A i \in 1..Len(base) :
                    ( /\ base[i]["State"] = selected_state
                      /\ base[i]["Severity"] \in Range(selected_severities) )
                    => ( (\E j \in 1..Len(out) : out[j] = base[i])
                         <=> base[i]["Year"] = selected_years[1] )

\* A filter that keeps two of three cleaned records, over a one-year range.
C1_Witness ==
    /\ df_filtered # None
    /\ NRows(Base) = 3
    /\ NRows(Filtered) = 2
    /\ selected_years[1] = selected_years[2]
    /\ Len(available_years) > 1

\* C2: once cleaning has produced the base table, no interaction changes it:
\* the table a run works on is the one load_data returned, rows, order and
\* columns, the cached result never changes, and filtering, outlier cleaning
\* and the rounded column act on other frames.
C2_BaseTableImmutable ==
    /\ [](df # None => Base = cache.df)
    /\ [][cache # Null => cache' = cache]_vars
    /\ [][(df # None /\ df' # None) => heap'["base"] = heap["base"]]_vars

\* A run that filtered the base table, cleaned outliers away and added the
\* rounded column to dff_clean.
C2_Witness ==
    /\ pc = "done"
    /\ dff_clean # None
    /\ Len(Clean.columns) = Len(Base.columns) + 1
    /\ NRows(Clean) < NRows(Filtered)
    /\ NRows(Filtered) < NRows(Base)

\* The run's load_data returned no table, or one without a region or a year.
NoDataLoaded ==
    /\ pc # "load"
    /\ cache # Null
    /\ (cache.df = Null \/ cache.states = <<>> \/ cache.years = <<>>)

\* C3: when the data source fails or nothing is left after cleaning, the run
\* ends in the stopped state with a message shown, no filter control is
\* evaluated, the filter does not run and no aggregate is computed or rendered.
C3_NoDataIsTerminal ==
    NoDataLoaded =>
        /\ pc \in {"loaded", "stopped"}
        /\ pc = "stopped" =>
             IF cache.df = Null THEN "Error loading data from Kaggle" \in shown
             ELSE NoDataWarning \in shown
        /\ selected_state = Unbound
        /\ selected_severities = Unbound
        /\ selected_years = Unbound
        /\ df_filtered = None
        /\ df_sample = None
        /\ dff_clean = None
        /\ severity_counts = Unbound
        /\ monthly_counts = Unbound
        /\ freq_data = Null
        /\ charts = NoCharts

\* A table whose rows cleaning all dropped: the run stopped with the warning.
C3_Witness ==
    /\ pc = "stopped"
    /\ cache.df # Null
    /\ Len(raw.rows) > 0
    /\ NoDataWarning \in shown

\* Whether the outlier rule of the metric drops a row: wind speed of 100 mph
\* or more, visibility above 20 miles, no temperature.
IsOutlier(metric_col, r) ==
    CASE metric_col = "Wind_Speed(mph)" -> r[metric_col].int >= 100
      [] metric_col = "Visibility(mi)" ->
            r[metric_col].int > 20 \/ (r[metric_col].int = 20 /\ r[metric_col].frac > 0)
      [] OTHER -> FALSE

\* C4: the empty-result warning is shown iff the filtered set is empty, and
\* then no chart is rendered; the metric warning is shown iff the filtered
\* set is not empty and the chosen metric's outlier rule drops every record;
\* the two are never shown in the same run.
C4_OutcomeClassification ==
    /\ ~(EmptyWarning \in shown /\ MetricWarning \in shown)
    /\ EmptyWarning \in shown => (pc = "done" /\ charts = NoCharts)
    /\ (pc = "done" /\ exception = Null) =>
         /\ EmptyWarning \in shown <=> NRows(Filtered) = 0
         /\ MetricWarning \in shown <=>
              /\ NRows(Filtered) > 0
              /\ \A i \in 1..Len(Filtered.rows) :
                    IsOutlier(metric_map[selected_metric_label], Filtered.rows[i])

\* A run whose filtered set of two records the wind rule dropped whole.
C4_Witness ==
    /\ pc = "done"
    /\ MetricWarning \in shown
    /\ selected_metric_label = "Wind Speed"
    /\ NRows(Filtered) = 2

\* C5: missing required columns never fail the pipeline: a raw table with
\* none of them gives an empty usable set and the no-data state, and with
\* some of them cleaning goes on with the columns present.
C5_MissingColumnsNeverFail ==
    (pc # "load" /\ ~(Range(columns_to_keep) \subseteq Range(raw.columns))) =>
        /\ exception # KeyError("load_data")
        /\ (Range(columns_to_keep) \cap Range(raw.columns) = {}) =>
              (cache # Null /\ cache.df # Null /\ Len(cache.df.rows) = 0)

\* C7: the severity counts hold one entry per severity present in the
\* filtered set and none other, ascending by severity, each count at least 1
\* and the number of records of that severity, the counts summing to the size
\* of the filtered set.
C7_SeverityCounts ==
    charts["severity"] # Unbound =>
        LET col == Column(Filtered, "Severity")
            sc == severity_counts
        IN /\ charts["severity"] = sc
           /\ {sc[i][1] : i \in 1..Len(sc)} = Range(col)
           /\ Len(sc) = Cardinality(Range(col))
           /\ \A i, j \in 1..Len(sc) : i < j => sc[i][1] < sc[j][1]
           /\ \A i \in 1..Len(sc) :
                 /\ sc[i][2] >= 1
                 /\ sc[i][2] = Records(Filtered, {k \in 1..Len(col) : col[k] = sc[i][1]})
           /\ SeqSum([i \in 1..Len(sc) |-> sc[i][2]]) = NRows(Filtered)

\* Two severities present, the lower one the rarer.
C7_Witness ==
    /\ charts["severity"] # Unbound
    /\ Len(severity_counts) = 2
    /\ severity_counts[1][2] < severity_counts[2][2]

\* C8: the monthly counts hold one pair per year-month bucket observed in the
\* filtered set and none other, ascending by bucket string, which is the
\* chronological order of (year, month); each count is the number of records
\* of that month and the counts sum to the size of the filtered set.
C8_MonthlyCounts ==
    charts["monthly"] # Unbound =>
        LET rows == Filtered.rows
            mc == monthly_counts
            InBucket(i) == {k \in 1..Len(rows) : rows[k]["YearMonth"] = mc[i][1]}
            YM(k) == 12 * rows[k]["Year"] + rows[k]["Month"]
        IN /\ charts["monthly"] = mc
           /\ {mc[i][1] : i \in 1..Len(mc)} = {rows[k]["YearMonth"] : k \in 1..Len(rows)}
           /\ Len(mc) = Cardinality({YM(k) : k \in 1..Len(rows)})
           /\ \A i, j \in 1..Len(mc) : i < j =>
                 /\ StrLess(mc[i][1], mc[j][1])
                 /\ \A a \in InBucket(i), b \in InBucket(j) : YM(a) < YM(b)
           /\ \A i \in 1..Len(mc) :
                 /\ InBucket(i) # {}
                 /\ mc[i][2] = Records(Filtered, InBucket(i))
                 /\ \A a, b \in InBucket(i) : YM(a) = YM(b)
           /\ SeqSum([i \in 1..Len(mc) |-> mc[i][2]]) = NRows(Filtered)

\* February (two records) and October of one year.
C8_Witness ==
    /\ charts["monthly"] # Unbound
    /\ Len(monthly_counts) = 2
    /\ monthly_counts[1][2] = 2
    /\ \E k \in 1..Len(Filtered.rows) : Filtered.rows[k]["Month"] = 10
    /\ \E k \in 1..Len(Filtered.rows) : Filtered.rows[k]["Month"] = 2

\* C6: the sampler hands the map the filtered set itself when it has at most
\* 10,000 records, and otherwise exactly 10,000 distinct records of it; the
\* map never gets more than 10,000, and a second run over the same filtered
\* set yields the same sample.
C6_SamplerCap ==
    df_sample # None =>
        LET f == Filtered.rows
            s == heap[df_sample].rows
            First(r) == r["index"]
            Last(r) == r["index"] + r["count"] - 1
        IN /\ NRows(Filtered) <= 10000 => (df_sample = df_filtered /\ s = f)
           /\ NRows(Filtered) > 10000 =>
                /\ NRows(heap[df_sample]) = 10000
                /\ \A i, j \in 1..Len(s) :
                      i # j => (Last(s[i]) < First(s[j]) \/ Last(s[j]) < First(s[i]))
                /\ \A i \in 1..Len(s) : \E j \in 1..Len(f) :
                      /\ First(f[j]) <= First(s[i])
                      /\ Last(s[i]) <= Last(f[j])
                      /\ s[i]["count"] >= 1
                      /\ \A c \in Range(Filtered.columns) : s[i][c] = f[j][c]
                /\ heap[df_sample].columns = Filtered.columns
           /\ NRows(heap[df_sample]) <= 10000
           /\ charts["map"] = s
           /\ prev_sample # Null => heap[df_sample] = prev_sample

\* A second run that sampled a filtered set of more than 10,000 records.
C6_Witness ==
    /\ df_sample = "sample"
    /\ prev_sample # Null
    /\ NRows(Filtered) > 10000
    /\ Len(Filtered.rows) = 2

\* The records the outlier rule of the chosen metric retains.
Retained(metric_col) ==
    {i \in 1..Len(Filtered.rows) : ~IsOutlier(metric_col, Filtered.rows[i])}

\* C9: the weather view bins exactly the filtered records the chosen metric's
\* rule retains (wind speed below 100, visibility at most 20, every
\* temperature), whatever their other metrics; it has one pair per distinct
\* rounded value of the retained records, each with the number of records
\* that round to it, and the frequencies sum to the number retained.
C9_WeatherBins ==
    (pc = "done" /\ dff_clean # None) =>
        LET col == metric_map[selected_metric_label]
            kept == Retained(col)
            keys == {round(Filtered.rows[i][col]) : i \in kept}
            fd == freq_data.rows
        IN /\ Labels(Clean) = {Filtered.rows[i]["index"] : i \in kept}
           /\ NRows(Clean) = Records(Filtered, kept)
           /\ kept = {} <=> freq_data = Null
           /\ kept # {} =>
                /\ {fd[j][1] : j \in 1..Len(fd)} = keys
                /\ Len(fd) = Cardinality(keys)
                /\ \A j \in 1..Len(fd) :
                      fd[j][2] = Records(Filtered, {i \in kept :
                                     round(Filtered.rows[i][col]) = fd[j][1]})
                /\ SeqSum([j \in 1..Len(fd) |-> fd[j][2]]) = Records(Filtered, kept)
                /\ charts["weather"] = fd

\* Wind speed chosen: 99.9 mph kept, 100.0 mph dropped.
C9_Witness ==
    /\ pc = "done"
    /\ selected_metric_label = "Wind Speed"
    /\ \E i \in 1..Len(Filtered.rows) :
          /\ Filtered.rows[i]["Wind_Speed(mph)"] = Dec(100, 0)
          /\ Filtered.rows[i]["index"] \notin Labels(Clean)
    /\ \E i \in 1..Len(Filtered.rows) :
          /\ Filtered.rows[i]["Wind_Speed(mph)"] = Dec(99, 9)
          /\ Filtered.rows[i]["index"] \in Labels(Clean)

\* The monthly correlation rows of a frame: per year-month bucket the record
\* count and, for each metric, the mean as sum of tenths over 10 * count.
Tenths(d) == 10 * d.int + d.frac

MonthlyCorrelation(frame) ==
    LET buckets == sorted(Range(Column(frame, "YearMonth")), "str")
        In(b) == {i \in 1..Len(frame.rows) : frame.rows[i]["YearMonth"] = b}
        RECURSIVE Sum(_, _)
        Sum(S, c) == IF S = {} THEN 0
                     ELSE LET i == CHOOSE x \in S : TRUE
                          IN frame.rows[i]["count"] * Tenths(frame.rows[i][c])
                             + Sum(S \ {i}, c)
        Mean(b, c) == [num |-> Sum(In(b), c), den |-> 10 * Records(frame, In(b))]
    IN [k \in 1..Len(buckets) |->
          [bucket |-> buckets[k], count |-> Records(frame, In(buckets[k])),
           visibility |-> Mean(buckets[k], "Visibility(mi)"),
           temperature |-> Mean(buckets[k], "Temperature(F)"),
           wind |-> Mean(buckets[k], "Wind_Speed(mph)")]]

\* C10 as stated: for every non-empty filtered set the weather view holds one
\* row per observed year-month bucket with the bucket, its record count and
\* the means of visibility, temperature and wind speed.
C10_MonthlyCorrelationMode ==
    (pc = "done" /\ exception = Null /\ NRows(Filtered) > 0) =>
        /\ freq_data # Null
        /\ freq_data.columns = <<"YearMonth", "Accident Count", "Visibility(mi)",
                                 "Temperature(F)", "Wind_Speed(mph)">>
        /\ Len(freq_data.rows) = Len(MonthlyCorrelation(Filtered))
        /\ \A k \in 1..Len(freq_data.rows) :
              /\ freq_data.rows[k][1] = MonthlyCorrelation(Filtered)[k].bucket
              /\ freq_data.rows[k][2] = MonthlyCorrelation(Filtered)[k].count

\* C10 amended: the weather view has the frequency-by-metric mode only: what
\* a run computes for it is a table of the rounded value of the chosen metric
\* and its frequency, whose keys are whole numbers the chosen metric rounds
\* to, never a row per bucket or a mean.
C10_FrequencyModeOnly ==
    /\ freq_data # Null =>
          /\ freq_data.columns = <<binned_col(metric_map[selected_metric_label]),
                                   "Accident Frequency">>
          /\ \A j \in 1..Len(freq_data.rows) :
                /\ Len(freq_data.rows[j]) = 2
                /\ \E i \in 1..Len(Filtered.rows) :
                      freq_data.rows[j][1] =
                          round(Filtered.rows[i][metric_map[selected_metric_label]])
    /\ (pc = "done" /\ exception = Null /\ NRows(Filtered) > 0) =>
          (freq_data = Null <=> MetricWarning \in shown)

\* A weather view over records of two different months.
C10_Witness ==
    /\ pc = "done"
    /\ freq_data # Null
    /\ NRows(Filtered) = 3
    /\ Len(monthly_counts) = 2
    /\ Len(freq_data.rows) = 1

====
